---- MODULE Spec2Model ----
(***************************************************************************)
(* Block store, fractional-index allocator and streaming coordinator of    *)
(* the block-based chat, and the message path beside it (convex/blocks.ts, *)
(* convex/utils.ts, convex/ai.ts, convex/conversations.ts,                 *)
(* convex/streaming.ts).                                                   *)
(*                                                                         *)
(* Representation                                                          *)
(*  - An optional value (a v.optional field or argument, `undefined` in    *)
(*    the source) is a sequence of length at most one: None is absent,     *)
(*    Some(x) is present.                                                  *)
(*  - A number (`order`, `afterOrder`) is an integer counting 1/Unit, so   *)
(*    the source's 1 is One and 1.5 is One + One \div 2.  A midpoint that  *)
(*    is not a multiple of 1/Unit is outside the model (Representable).    *)
(*  - A string is a sequence of characters.                                *)
(*  - Database ids are allocated in increasing order, so a smaller id is   *)
(*    an earlier _creationTime.  Timestamps (createdAt, updatedAt) are not *)
(*    modelled.                                                            *)
(***************************************************************************)
EXTENDS Integers, Sequences, FiniteSets, TLC

\* ------------------------------------------------------------------ bounds
\* Spec: documents ever inserted into the blocks table
MaxBlocks == 3
\* SpecStream: documents ever inserted into the blocks table, and stream
\* parts consumed by all generations together
StreamBlocks == 1
StreamParts == 3
\* SpecContext: documents ever inserted into the blocks table
ContextBlocks == 3
\* SpecAuth, SpecEntry: documents ever inserted into the blocks table;
\* SpecEntry: documents ever inserted into the messages table
AuthBlocks == 2
AuthMessages == 4
\* SpecPair: generations requested on one conversation, and the stream parts
\* they consume together
PairBlocks == 2
PairParts == 4
\* SpecConvert: documents ever inserted into the blocks table
ConvertBlocks == 2
\* binary digits kept after the point of an order value
Depth == 1
\* largest magnitude (in whole units) of an argument given to the allocator
MaxMag == 2

Unit == 2 ^ Depth
One == Unit

\* ---------------------------------------------------------------- options
None == <<>>
Some(x) == <<x>>
IsSome(o) == Len(o) = 1
Get(o) == o[1]

\* ------------------------------------------------- fractional-index allocator
\* JavaScript truthiness of an optional number: undefined and 0 are falsy.
Truthy(o) == IsSome(o) /\ Get(o) # 0

\* (a + b) / 2 on numbers counted in 1/Unit
Mean(a, b) == (a + b) \div 2

\* The midpoint is taken only where it is a multiple of 1/Unit.
Representable(prevOrder, nextOrder) ==
  (Truthy(prevOrder) /\ Truthy(nextOrder)) =>
     (Get(prevOrder) + Get(nextOrder)) % 2 = 0

calculateOrder(prevOrder, nextOrder) ==
  IF Truthy(prevOrder) /\ Truthy(nextOrder)
    THEN Mean(Get(prevOrder), Get(nextOrder))
  ELSE IF Truthy(prevOrder) THEN Get(prevOrder) + One
  ELSE IF Truthy(nextOrder) THEN Get(nextOrder) - One
  ELSE One

\* ------------------------------------------------------------------ strings
NL == "\n"
Chars == {"a", "b", NL}

RECURSIVE Flatten(_)
Flatten(ss) == IF ss = <<>> THEN <<>> ELSE Head(ss) \o Flatten(Tail(ss))

\* ------------------------------------------------------- rich documents
\* A document is [type |-> "doc", content |-> <<node, ...>>]; a node is a
\* paragraph with its text (empty for { type: "paragraph" }).
Paragraph(t) == [type |-> "paragraph", text |-> t]
Doc(nodes) == [type |-> "doc", content |-> nodes]
defaultContent == Doc(<<Paragraph(<<>>)>>)

\* Lines of a Markdown text: the maximal runs of non-newline characters, in
\* order.  The texts of the model separate runs by blank lines only.
RECURSIVE Runs(_, _)
Runs(md, cur) ==
  IF md = <<>> THEN (IF cur = <<>> THEN <<>> ELSE <<cur>>)
  ELSE IF Head(md) = NL
    THEN (IF cur = <<>> THEN <<>> ELSE <<cur>>) \o Runs(Tail(md), <<>>)
    ELSE Runs(Tail(md), Append(cur, Head(md)))

\* marked turns each blank-line separated run into a <p>, generateJSON maps
\* each <p> to a paragraph node; an empty input yields the schema's minimal
\* document, one empty paragraph.
markdownToTiptapJson(markdown) ==
  LET runs == Runs(markdown, <<>>) IN
  IF runs = <<>> THEN Doc(<<Paragraph(<<>>)>>)
  ELSE Doc([i \in 1..Len(runs) |-> Paragraph(runs[i])])

\* The serializer writes each paragraph's inline content and separates
\* closed blocks by a blank line; an empty paragraph writes nothing.
RECURSIVE SerializeNodes(_, _)
SerializeNodes(nodes, out) ==
  IF nodes = <<>> THEN out
  ELSE LET t == Head(nodes).text IN
       SerializeNodes(Tail(nodes),
          IF t = <<>> THEN out
          ELSE IF out = <<>> THEN t
          ELSE out \o <<NL, NL>> \o t)

\* The outcome of a call: the value it returns, or raised when it throws.
Returns(value) == [raised |-> FALSE, value |-> value]
Raises == [raised |-> TRUE, value |-> <<>>]

\* node types of the schema built from StarterKit, as far as documents of the
\* model use them; a node of any other type makes nodeFromJSON throw
SchemaNodes == {"paragraph"}
UnknownNode == [type |-> "mention", text |-> <<>>]

\* the body of the try block: nodeFromJSON, then serializer.serialize
nodeFromJSONAndSerialize(doc) ==
  IF \E n \in 1..Len(doc.content) : doc.content[n].type \notin SchemaNodes
    THEN Raises
    ELSE Returns(SerializeNodes(doc.content, <<>>))

\* the string the catch block returns
ConversionError == <<"Error during conversion.">>

convertOutcome_NoCatch(json) ==
  IF ~IsSome(json) \/ Get(json).content = <<>> THEN Returns(<<>>)
  ELSE nodeFromJSONAndSerialize(Get(json))

\* convertTiptapJsonToMarkdown as a call; json is the optional parsed content
\* of a block
convertOutcome(json) ==
  IF ~IsSome(json) \/ Get(json).content = <<>> THEN Returns(<<>>)
  ELSE IF nodeFromJSONAndSerialize(Get(json)).raised
    THEN Returns(ConversionError)
  ELSE nodeFromJSONAndSerialize(Get(json))

\* the string it returns
convertTiptapJsonToMarkdown(json) == convertOutcome(json).value

\* JSON.stringify / JSON.parse of a document: the stored form is a string,
\* tagged here so that it is not the document itself.
JSONstringify(doc) == [json |-> doc]
JSONparse(str) == str.json

\* ------------------------------------------------------------------- state
Users == {"u1", "u2"}
ConvIds == {"c1", "c2"}
BlockIds == 1..(MaxBlocks + StreamBlocks)
ModelId == "gpt-4o-mini"

VARIABLES
  convs,        \* conversations table: id -> [userId, status]
  blocks,       \* blocks table: _id -> document, domain = existing ids
  nextBlockId,  \* next _id (and _creationTime) the blocks table hands out
  gens,         \* scheduled streamBlockResponse runs, keyed by their blockId
  lastCreate,   \* the latest block creation: its arguments and returned id
  allocArgs,    \* arguments of a stand-alone calculateOrder call
  allocResult,  \* its optional result
  thrown,       \* the error the latest public call threw, None if it returned
  messages,     \* messages table: _id -> document
  streamChunks, \* streamChunks table, in insertion order
  nextMessageId,\* next _id (and _creationTime) the messages table hands out
  mgens         \* scheduled streamResponse runs, keyed by their messageId

\* the tables and runs of the message path
chatVars == <<messages, streamChunks, nextMessageId, mgens>>

vars == <<convs, blocks, nextBlockId, gens, lastCreate, allocArgs, allocResult,
          thrown, chatVars>>

\* --------------------------------------------------------------- the tables
Insert(table, id, doc) ==
  [i \in DOMAIN table \cup {id} |-> IF i = id THEN doc ELSE table[i]]

Delete(table, id) == [i \in DOMAIN table \ {id} |-> table[i]]

\* conversations.create: the inserted document
create(userId) == [userId |-> userId, status |-> "idle"]

\* Index order: lexicographic on the key, a pair <<indexed field, id>>,
\* because every index ends with _creationTime.
KeyLess(key, i, j) ==
  \/ key[i][1] < key[j][1]
  \/ key[i][1] = key[j][1] /\ key[i][2] < key[j][2]

RECURSIVE Ascending(_, _)
Ascending(ids, key) ==
  IF ids = {} THEN <<>>
  ELSE LET m == CHOOSE i \in ids : \A j \in ids \ {i} : KeyLess(key, i, j)
       IN <<m>> \o Ascending(ids \ {m}, key)

InConversation(bs, conversationId) ==
  {i \in DOMAIN bs : bs[i].conversationId = conversationId}

\* withIndex("by_conversation_and_order", eq(conversationId)).order("asc")
by_conversation_and_order(bs, conversationId) ==
  Ascending(InConversation(bs, conversationId),
            [i \in DOMAIN bs |-> <<bs[i].order, i>>])

\* withIndex("by_conversation_and_inclusion",
\*           eq(conversationId).eq(isExcluded, false)).order("asc"):
\* the equal prefix leaves _creationTime as the sort key
by_conversation_and_inclusion(bs, conversationId) ==
  Ascending({i \in InConversation(bs, conversationId) : ~bs[i].isExcluded},
            [i \in DOMAIN bs |-> <<0, i>>])

\* a document as a query returns it: the fields, content parsed, and _id
Returned(bs, i) ==
  [_id |-> i,
   conversationId |-> bs[i].conversationId,
   author |-> bs[i].author,
   content |-> IF IsSome(bs[i].content)
                 THEN Some(JSONparse(Get(bs[i].content))) ELSE None,
   streamingContent |-> bs[i].streamingContent,
   streamId |-> bs[i].streamId,
   isStreaming |-> bs[i].isStreaming,
   order |-> bs[i].order,
   isExcluded |-> bs[i].isExcluded,
   metadata |-> bs[i].metadata]

getBlocksAssistant_Unfiltered(bs, conversationId) ==
  LET ids == Ascending(InConversation(bs, conversationId),
                       [i \in DOMAIN bs |-> <<0, i>>])
  IN [n \in 1..Len(ids) |-> Returned(bs, ids[n])]

getBlocksAssistant(bs, conversationId) ==
  LET ids == by_conversation_and_inclusion(bs, conversationId)
  IN [n \in 1..Len(ids) |-> Returned(bs, ids[n])]

\* the owner check of the public block and conversation functions
Owns(cv, caller, conversationId) ==
  conversationId \in DOMAIN cv /\ cv[conversationId].userId = caller

Thrown(message) == [error |-> Some(message), blocks |-> <<>>]

getBlocksUser_CreationOrder(bs, cv, caller, conversationId) ==
  IF ~Owns(cv, caller, conversationId) THEN Thrown("Unauthorized")
  ELSE LET ids == Ascending(InConversation(bs, conversationId),
                            [i \in DOMAIN bs |-> <<0, i>>])
       IN [error |-> None,
           blocks |-> [n \in 1..Len(ids) |-> Returned(bs, ids[n])]]

getBlocksUser(bs, cv, caller, conversationId) ==
  IF ~Owns(cv, caller, conversationId) THEN Thrown("Unauthorized")
  ELSE LET ids == by_conversation_and_order(bs, conversationId)
       IN [error |-> None,
           blocks |-> [n \in 1..Len(ids) |-> Returned(bs, ids[n])]]

\* --------------------------------------------------------- block creation
Max(S) == CHOOSE x \in S : \A y \in S : y <= x
Min(S) == CHOOSE x \in S : \A y \in S : x <= y

Orders(bs, conversationId) ==
  {bs[i].order : i \in InConversation(bs, conversationId)}

\* orders of the blocks the filter q.gt(q.field("order"), afterOrder) keeps
OrdersAfter(bs, conversationId, afterOrder) ==
  {o \in Orders(bs, conversationId) : o > Get(afterOrder)}

\* the order of nextBlock, if the query finds one
nextBlockOrder(bs, conversationId, afterOrder) ==
  IF OrdersAfter(bs, conversationId, afterOrder) = {} THEN None
  ELSE Some(Min(OrdersAfter(bs, conversationId, afterOrder)))

\* newOrder of createUserBlock; createAssistantBlock repeats the same text
newOrder(bs, conversationId, afterOrder) ==
  IF ~IsSome(afterOrder)
    THEN IF Orders(bs, conversationId) = {} THEN One
         ELSE Max(Orders(bs, conversationId)) + One
  ELSE IF IsSome(nextBlockOrder(bs, conversationId, afterOrder))
    THEN calculateOrder(afterOrder,
                        nextBlockOrder(bs, conversationId, afterOrder))
  ELSE Get(afterOrder) + One

\* the creation stays within the modelled precision
OrderInModel(bs, conversationId, afterOrder) ==
  (IsSome(afterOrder)
     /\ IsSome(nextBlockOrder(bs, conversationId, afterOrder)))
  => Representable(afterOrder, nextBlockOrder(bs, conversationId, afterOrder))

\* the document createUserBlock inserts; content is the optional argument
createUserBlock(bs, conversationId, content, afterOrder) ==
  [conversationId |-> conversationId,
   author |-> "user",
   content |-> IF IsSome(content) THEN Some(JSONstringify(Get(content)))
               ELSE Some(JSONstringify(defaultContent)),
   streamingContent |-> None,
   streamId |-> None,
   isStreaming |-> FALSE,
   order |-> newOrder(bs, conversationId, afterOrder),
   isExcluded |-> FALSE,
   metadata |-> None]

Metadata(model, finishReason, tokens) ==
  [model |-> model, finishReason |-> finishReason, tokens |-> tokens]

createAssistantBlock_Prefilled(bs, conversationId, afterOrder, model, streamId) ==
  [conversationId |-> conversationId,
   author |-> "assistant",
   content |-> None,
   streamingContent |-> Some(<<>>),
   streamId |-> Some(streamId),
   isStreaming |-> TRUE,
   order |-> newOrder(bs, conversationId, afterOrder),
   isExcluded |-> FALSE,
   metadata |-> Some(Metadata(Some(model), None, None))]

\* the document createAssistantBlock inserts
createAssistantBlock(bs, conversationId, afterOrder, model, streamId) ==
  [conversationId |-> conversationId,
   author |-> "assistant",
   content |-> None,
   streamingContent |-> None,
   streamId |-> Some(streamId),
   isStreaming |-> FALSE,
   order |-> newOrder(bs, conversationId, afterOrder),
   isExcluded |-> FALSE,
   metadata |-> Some(Metadata(Some(model), None, None))]

\* ------------------------------------------------------- patches of a block
updateBlockUser(block, content) ==
  [block EXCEPT !.content = Some(JSONstringify(content))]

toggleExclusion_AlsoStops(block, isExcluded) ==
  [block EXCEPT !.isExcluded = isExcluded, !.isStreaming = FALSE]

toggleExclusion(block, isExcluded) ==
  [block EXCEPT !.isExcluded = isExcluded]

updateBlockAssistant_FlagKept(block, streamingContent, streamId, isStreaming, metadata) ==
  [block EXCEPT !.streamingContent = Some(streamingContent),
                !.streamId = Some(streamId),
                !.metadata = metadata]

\* a field patched with undefined is removed
updateBlockAssistant(block, streamingContent, streamId, isStreaming, metadata) ==
  [block EXCEPT !.streamingContent = Some(streamingContent),
                !.streamId = Some(streamId),
                !.isStreaming = isStreaming,
                !.metadata = metadata]

completeBlockAssistant_KeepsStream(block, content, metadata) ==
  [block EXCEPT !.content = Some(JSONstringify(content)),
                !.isStreaming = FALSE,
                !.metadata = metadata]

completeBlockAssistant(block, content, metadata) ==
  [block EXCEPT !.content = Some(JSONstringify(content)),
                !.isStreaming = FALSE,
                !.streamId = None,
                !.streamingContent = None,
                !.metadata = metadata]

setError_Ignored(cv, conversationId) == cv

setError(cv, conversationId) ==
  [cv EXCEPT ![conversationId].status = "error"]

\* ------------------------------------------------------- context assembly
SystemMessage == [role |-> "system", content |-> <<"You are a helpful assistant.">>]
ContinueMessage == [role |-> "user", content |-> <<"Continue">>]

NonEmptyMessages_KeepAll(msgs) == msgs

\* .filter((block) => block.content.length)
RECURSIVE NonEmptyMessages(_)
NonEmptyMessages(msgs) ==
  IF msgs = <<>> THEN <<>>
  ELSE (IF Len(Head(msgs).content) # 0 THEN <<Head(msgs)>> ELSE <<>>)
       \o NonEmptyMessages(Tail(msgs))

\* blocksToUse of generateBlocks, from the result of getBlocksAssistant
blocksToUse(conversationBlocks) ==
  LET mapped == [n \in 1..Len(conversationBlocks) |->
                   [role |-> conversationBlocks[n].author,
                    content |-> convertTiptapJsonToMarkdown(
                                   conversationBlocks[n].content)]]
      list == <<SystemMessage>> \o NonEmptyMessages(mapped)
  IN IF list[Len(list)].role = "assistant"
       THEN Append(list, ContinueMessage) ELSE list

\* ---------------------------------------------------------- token estimate
\* What the reduce of tokenInfo hands to getApproximateTokens for one block:
\* the Markdown of its content, or the JSON text when the conversion throws.
tokenText(block) ==
  IF convertOutcome(block.content).raised
    THEN [from |-> "JSON.stringify", markdown |-> <<>>,
          json |-> Some(JSONstringify(Get(block.content)))]
    ELSE [from |-> "markdown",
          markdown |-> convertOutcome(block.content).value, json |-> None]

\* tokenInfo over the result of getBlocksUser: one text per non-excluded
\* block that has content, in the order of the result; `used` is the sum of
\* getApproximateTokens over these texts.
RECURSIVE tokenInfo(_)
tokenInfo(bs) ==
  IF bs = <<>> THEN <<>>
  ELSE (IF ~Head(bs).isExcluded /\ IsSome(Head(bs).content)
          THEN <<[_id |-> Head(bs)._id, text |-> tokenText(Head(bs))]>>
          ELSE <<>>)
       \o tokenInfo(Tail(bs))

\* ------------------------------------------------------------ stream parts
TextDelta(d) ==
  [type |-> "text-delta", textDelta |-> d, finishReason |-> None, tokens |-> None]
FinishPart(reason, tokens) ==
  [type |-> "finish", textDelta |-> <<>>, finishReason |-> Some(reason),
   tokens |-> tokens]
ErrorPart ==
  [type |-> "error", textDelta |-> <<>>, finishReason |-> None, tokens |-> None]
StepPart ==
  [type |-> "step-finish", textDelta |-> <<>>, finishReason |-> None,
   tokens |-> None]

\* inputs
Deltas == {<<"a">>, <<NL, NL, "b">>}
FinishReasons == {"stop"}
Usages == {Some(7)}
UserDocs == {Doc(<<Paragraph(<<"a">>)>>)}
AfterOrders == {None, Some(0), Some(One)}
OptNums == {None} \cup {Some(n) : n \in (0 - MaxMag * Unit)..(MaxMag * Unit)}
OwnerOf == [c \in ConvIds |-> IF c = "c1" THEN "u1" ELSE "u2"]

NoCreate == [id |-> 0, conversationId |-> "none", afterOrder |-> None]

\* -------------------------------------------------------------------- Init
\* The database after each user has created one conversation; no block yet.
Init ==
  /\ convs = [c \in ConvIds |-> create(OwnerOf[c])]
  /\ blocks = [i \in {} |-> 0]
  /\ nextBlockId = 1
  /\ gens = [i \in {} |-> 0]
  /\ lastCreate = NoCreate
  /\ allocArgs = <<None, None>>
  /\ allocResult = None
  /\ thrown = None
  /\ messages = [i \in {} |-> 0]
  /\ streamChunks = <<>>
  /\ nextMessageId = 1
  /\ mgens = [i \in {} |-> 0]

\* ------------------------------------------------- the public block functions
\* A handler that throws aborts its transaction: nothing is written and the
\* caller receives the error.

\* createUserBlock: the error its check throws, if any
createUserBlockError(cv, caller, conversationId) ==
  IF ~Owns(cv, caller, conversationId) THEN Some("Unauthorized") ELSE None

UserCreatesBlock(caller, conversationId, content, afterOrder) ==
  IF IsSome(createUserBlockError(convs, caller, conversationId))
    THEN /\ thrown' = createUserBlockError(convs, caller, conversationId)
         /\ UNCHANGED <<convs, blocks, nextBlockId, gens, lastCreate,
                        allocArgs, allocResult, chatVars>>
    ELSE /\ OrderInModel(blocks, conversationId, afterOrder)
         /\ blocks' = Insert(blocks, nextBlockId,
                        createUserBlock(blocks, conversationId, content,
                                        afterOrder))
         /\ nextBlockId' = nextBlockId + 1
         /\ lastCreate' = [id |-> nextBlockId,
                           conversationId |-> conversationId,
                           afterOrder |-> afterOrder]
         /\ thrown' = None
         /\ UNCHANGED <<convs, gens, allocArgs, allocResult, chatVars>>

\* the three checks of deleteBlock, updateBlockUser and toggleExclusion pass
MayWrite(caller, blockId) ==
  /\ blockId \in DOMAIN blocks
  /\ blocks[blockId].conversationId \in DOMAIN convs
  /\ convs[blocks[blockId].conversationId].userId = caller

WriteError_NoOwnerCheck(bs, cv, caller, blockId) ==
  IF blockId \notin DOMAIN bs THEN Some("Block not found")
  ELSE IF bs[blockId].conversationId \notin DOMAIN cv
    THEN Some("Conversation not found")
  ELSE None

\* the error those checks throw, if any, in the order the code makes them
WriteError(bs, cv, caller, blockId) ==
  IF blockId \notin DOMAIN bs THEN Some("Block not found")
  ELSE IF bs[blockId].conversationId \notin DOMAIN cv
    THEN Some("Conversation not found")
  ELSE IF cv[bs[blockId].conversationId].userId # caller
    THEN Some("Unauthorized")
  ELSE None

\* what a block function leaves alone besides the blocks table
BlockFrame ==
  UNCHANGED <<convs, nextBlockId, gens, lastCreate, allocArgs, allocResult,
              chatVars>>

deleteBlock(caller, blockId) ==
  /\ thrown' = WriteError(blocks, convs, caller, blockId)
  /\ blocks' = IF IsSome(WriteError(blocks, convs, caller, blockId))
                 THEN blocks ELSE Delete(blocks, blockId)
  /\ BlockFrame

UserUpdatesBlock(caller, blockId, content) ==
  /\ thrown' = WriteError(blocks, convs, caller, blockId)
  /\ blocks' = IF IsSome(WriteError(blocks, convs, caller, blockId))
                 THEN blocks
                 ELSE [blocks EXCEPT ![blockId] = updateBlockUser(@, content)]
  /\ BlockFrame

UserTogglesExclusion(caller, blockId, isExcluded) ==
  /\ thrown' = WriteError(blocks, convs, caller, blockId)
  /\ blocks' = IF IsSome(WriteError(blocks, convs, caller, blockId))
                 THEN blocks
                 ELSE [blocks EXCEPT ![blockId] =
                         toggleExclusion(@, isExcluded)]
  /\ BlockFrame

\* ----------------------------------------------------------- generateBlocks
generateBlocksError(cv, userId, conversationId) ==
  IF ~Owns(cv, userId, conversationId) THEN Some("Unauthorized") ELSE None

generateBlocks(userId, conversationId, afterOrder) ==
  IF IsSome(generateBlocksError(convs, userId, conversationId))
    THEN /\ thrown' = generateBlocksError(convs, userId, conversationId)
         /\ UNCHANGED <<convs, blocks, nextBlockId, gens, lastCreate,
                        allocArgs, allocResult, chatVars>>
    ELSE
  /\ OrderInModel(blocks, conversationId, afterOrder)
  /\ LET conversationBlocks == getBlocksAssistant(blocks, conversationId)
         blockId == nextBlockId
         streamId == nextBlockId
     IN /\ blocks' = Insert(blocks, blockId,
               createAssistantBlock(blocks, conversationId, afterOrder,
                                    ModelId, streamId))
        /\ gens' = Insert(gens, blockId,
               [pc |-> "scheduled",
                conversationId |-> conversationId,
                streamId |-> streamId,
                messages |-> blocksToUse(conversationBlocks),
                accumulatedContent |-> <<>>,
                parts |-> <<>>])
        /\ lastCreate' = [id |-> blockId, conversationId |-> conversationId,
                          afterOrder |-> afterOrder]
  /\ nextBlockId' = nextBlockId + 1
  /\ thrown' = None
  /\ UNCHANGED <<convs, allocArgs, allocResult, chatVars>>

\* ------------------------------------------------------ streamBlockResponse
\* pc: "scheduled" before the action runs, "loop" while it awaits the next
\* part, "catch" between a raised exception and the handler's setError,
\* "done" after the loop or the handler.
Consuming(g) ==
  /\ g \in DOMAIN gens
  /\ gens[g].pc = "loop"

StartStream(g) ==
  /\ g \in DOMAIN gens
  /\ gens[g].pc = "scheduled"
  /\ gens' = [gens EXCEPT ![g].pc = "loop"]
  /\ UNCHANGED <<convs, blocks, nextBlockId, lastCreate, allocArgs, allocResult,
               thrown, chatVars>>

accumulate_Prepend(accumulatedContent, textDelta) ==
  textDelta \o accumulatedContent

\* accumulatedContent += part.textDelta
accumulate(accumulatedContent, textDelta) == accumulatedContent \o textDelta

OnTextDelta_WritesOldest(g, d) ==
  /\ Consuming(g)
  /\ LET acc == accumulate(gens[g].accumulatedContent, d)
         oldest == CHOOSE h \in DOMAIN blocks : \A k \in DOMAIN blocks : h <= k
     IN
     /\ g \in DOMAIN blocks
     /\ gens' = [gens EXCEPT ![g].accumulatedContent = acc,
                             ![g].parts = Append(@, TextDelta(d)),
                             ![g].pc = "loop"]
     /\ blocks' = [blocks EXCEPT ![oldest] =
                     updateBlockAssistant(@, acc, gens[g].streamId, TRUE, None)]
  /\ UNCHANGED <<convs, nextBlockId, lastCreate, allocArgs, allocResult,
               thrown, chatVars>>

\* case "text-delta"; the patch of a deleted block throws
OnTextDelta(g, d) ==
  /\ Consuming(g)
  /\ LET acc == accumulate(gens[g].accumulatedContent, d) IN
     /\ gens' = [gens EXCEPT ![g].accumulatedContent = acc,
                             ![g].parts = Append(@, TextDelta(d)),
                             ![g].pc = IF g \in DOMAIN blocks
                                         THEN "loop" ELSE "catch"]
     /\ blocks' = IF g \in DOMAIN blocks
                    THEN [blocks EXCEPT ![g] =
                            updateBlockAssistant(@, acc, gens[g].streamId,
                                                 TRUE, None)]
                    ELSE blocks
  /\ UNCHANGED <<convs, nextBlockId, lastCreate, allocArgs, allocResult,
               thrown, chatVars>>

\* The same case in its two steps, for the specification that looks inside
\* it: the part is taken and accumulated, and the loop then stands at
\* `await ctx.runMutation(internal.blocks.updateBlockAssistant, ...)`
\* (pc "await") until that mutation has committed or thrown.
TakeTextDelta(g, d) ==
  /\ Consuming(g)
  /\ gens' = [gens EXCEPT ![g].accumulatedContent = accumulate(@, d),
                          ![g].parts = Append(@, TextDelta(d)),
                          ![g].pc = "await"]
  /\ UNCHANGED <<convs, blocks, nextBlockId, lastCreate, allocArgs,
                 allocResult, thrown, chatVars>>

AwaitedWrite(g) ==
  /\ g \in DOMAIN gens
  /\ gens[g].pc = "await"
  /\ gens' = [gens EXCEPT ![g].pc = IF g \in DOMAIN blocks
                                      THEN "loop" ELSE "catch"]
  /\ blocks' = IF g \in DOMAIN blocks
                 THEN [blocks EXCEPT ![g] =
                         updateBlockAssistant(@, gens[g].accumulatedContent,
                                              gens[g].streamId, TRUE, None)]
                 ELSE blocks
  /\ UNCHANGED <<convs, nextBlockId, lastCreate, allocArgs, allocResult,
               thrown, chatVars>>

OnFinish_SkipsMissing(g, finishReason, tokens, converts) ==
  /\ Consuming(g)
  /\ gens' = [gens EXCEPT ![g].parts =
                             Append(@, FinishPart(finishReason, tokens)),
                          ![g].pc = IF converts THEN "loop" ELSE "catch"]
  /\ blocks' = IF converts /\ g \in DOMAIN blocks
                 THEN [blocks EXCEPT ![g] =
                         completeBlockAssistant(@,
                           markdownToTiptapJson(gens[g].accumulatedContent),
                           Some(Metadata(Some(ModelId), Some(finishReason),
                                         tokens)))]
                 ELSE blocks
  /\ UNCHANGED <<convs, nextBlockId, lastCreate, allocArgs, allocResult,
               thrown, chatVars>>

\* case "finish"; converts says whether markdownToTiptapJson returns
OnFinish(g, finishReason, tokens, converts) ==
  /\ Consuming(g)
  /\ LET written == converts /\ g \in DOMAIN blocks IN
     /\ gens' = [gens EXCEPT ![g].parts =
                                Append(@, FinishPart(finishReason, tokens)),
                             ![g].pc = IF written THEN "loop" ELSE "catch"]
     /\ blocks' = IF written
                    THEN [blocks EXCEPT ![g] =
                            completeBlockAssistant(@,
                              markdownToTiptapJson(gens[g].accumulatedContent),
                              Some(Metadata(Some(ModelId), Some(finishReason),
                                            tokens)))]
                    ELSE blocks
  /\ UNCHANGED <<convs, nextBlockId, lastCreate, allocArgs, allocResult,
               thrown, chatVars>>

\* case "error"
OnError(g) ==
  /\ Consuming(g)
  /\ gens' = [gens EXCEPT ![g].parts = Append(@, ErrorPart)]
  /\ convs' = setError(convs, gens[g].conversationId)
  /\ UNCHANGED <<blocks, nextBlockId, lastCreate, allocArgs, allocResult,
               thrown, chatVars>>

\* default: any other part is logged
OnOtherPart(g) ==
  /\ Consuming(g)
  /\ gens' = [gens EXCEPT ![g].parts = Append(@, StepPart)]
  /\ UNCHANGED <<convs, blocks, nextBlockId, lastCreate, allocArgs, allocResult,
               thrown, chatVars>>

\* the iteration of result.fullStream throws
StreamThrows(g) ==
  /\ g \in DOMAIN gens
  /\ gens[g].pc = "loop"
  /\ gens' = [gens EXCEPT ![g].pc = "catch"]
  /\ UNCHANGED <<convs, blocks, nextBlockId, lastCreate, allocArgs, allocResult,
               thrown, chatVars>>

\* the stream closes and the loop ends
StreamEnds(g) ==
  /\ g \in DOMAIN gens
  /\ gens[g].pc = "loop"
  /\ gens' = [gens EXCEPT ![g].pc = "done"]
  /\ UNCHANGED <<convs, blocks, nextBlockId, lastCreate, allocArgs, allocResult,
               thrown, chatVars>>

\* catch (error) { ... setError ... }
CatchHandler(g) ==
  /\ g \in DOMAIN gens
  /\ gens[g].pc = "catch"
  /\ convs' = setError(convs, gens[g].conversationId)
  /\ gens' = [gens EXCEPT ![g].pc = "done"]
  /\ UNCHANGED <<blocks, nextBlockId, lastCreate, allocArgs, allocResult,
               thrown, chatVars>>

\* ------------------------------------------------------- the message path
\* conversation ids: the two of Init and one that sendMessage may create
FreshConvId == "c3"
AllConvIds == ConvIds \cup {FreshConvId}
UserTexts == {<<"a">>}

\* the document addUserMessage inserts
addUserMessage(conversationId, content) ==
  [conversationId |-> conversationId, role |-> "user", content |-> content,
   streamId |-> None, isComplete |-> TRUE, metadata |-> None]

\* the document createStreamingMessage inserts
createStreamingMessage(conversationId, role, initialContent, streamId) ==
  [conversationId |-> conversationId, role |-> role,
   content |-> initialContent, streamId |-> Some(streamId),
   isComplete |-> FALSE, metadata |-> None]

\* createStreamingMessage: db.patch(conversationId, { status: "streaming" })
setStreaming(cv, conversationId) ==
  [cv EXCEPT ![conversationId].status = "streaming"]

\* completeStream: db.patch(conversationId, { status: "completed" })
setCompleted(cv, conversationId) ==
  [cv EXCEPT ![conversationId].status = "completed"]

\* getMessagesByConversationId: by_conversation, ascending creation time
getMessagesByConversationId(ms, conversationId) ==
  LET ids == Ascending({i \in DOMAIN ms : ms[i].conversationId = conversationId},
                       [i \in DOMAIN ms |-> <<0, i>>])
  IN [n \in 1..Len(ids) |-> ms[ids[n]]]

\* sendMessage makes no check of its own; addUserMessage patches the
\* conversation, which throws when the id names no document
sendMessageError(cv, conversationId) ==
  IF IsSome(conversationId) /\ Get(conversationId) \notin DOMAIN cv
    THEN Some("Update on nonexistent document") ELSE None

sendMessage(userId, conversationId, message) ==
  IF IsSome(sendMessageError(convs, conversationId))
    THEN /\ thrown' = sendMessageError(convs, conversationId)
         /\ UNCHANGED <<convs, blocks, nextBlockId, gens, lastCreate,
                        allocArgs, allocResult, chatVars>>
    ELSE
  LET c == IF IsSome(conversationId) THEN Get(conversationId) ELSE FreshConvId
      created == IF IsSome(conversationId) THEN convs
                 ELSE Insert(convs, c, create(userId))
      userMessageId == nextMessageId
      messageId == nextMessageId + 1
      streamId == nextMessageId + 1
      withUser == Insert(messages, userMessageId, addUserMessage(c, message))
      conversationMessages == getMessagesByConversationId(withUser, c)
  IN /\ (~IsSome(conversationId)) => FreshConvId \notin DOMAIN convs
     /\ messages' = Insert(withUser, messageId,
                      createStreamingMessage(c, "assistant", <<>>, streamId))
     /\ convs' = setStreaming(created, c)
     /\ mgens' = Insert(mgens, messageId,
           [pc |-> "scheduled",
            conversationId |-> c,
            streamId |-> streamId,
            messages |-> <<SystemMessage>> \o
               [n \in 1..Len(conversationMessages) |->
                  [role |-> conversationMessages[n].role,
                   content |-> conversationMessages[n].content]],
            accumulatedContent |-> <<>>,
            chunkIndex |-> 0,
            parts |-> <<>>])
     /\ nextMessageId' = nextMessageId + 2
     /\ thrown' = None
     /\ UNCHANGED <<blocks, nextBlockId, gens, lastCreate, allocArgs,
                    allocResult, streamChunks>>

\* ----------------------------------------------------------- streamResponse
\* what a step of streamResponse leaves alone besides convs, messages,
\* streamChunks and mgens
ResponseFrame ==
  UNCHANGED <<blocks, nextBlockId, gens, lastCreate, allocArgs, allocResult,
              thrown, nextMessageId>>

Responding(m) ==
  /\ m \in DOMAIN mgens
  /\ mgens[m].pc = "loop"

StartResponse(m) ==
  /\ m \in DOMAIN mgens
  /\ mgens[m].pc = "scheduled"
  /\ mgens' = [mgens EXCEPT ![m].pc = "loop"]
  /\ UNCHANGED <<convs, messages, streamChunks>>
  /\ ResponseFrame

\* case "text-delta": appendStreamChunk
ResponseTextDelta(m, d) ==
  /\ Responding(m)
  /\ LET acc == accumulate(mgens[m].accumulatedContent, d) IN
     /\ mgens' = [mgens EXCEPT ![m].accumulatedContent = acc,
                               ![m].chunkIndex = @ + 1,
                               ![m].parts = Append(@, TextDelta(d))]
     /\ streamChunks' = Append(streamChunks,
           [messageId |-> m, streamId |-> mgens[m].streamId,
            chunkIndex |-> mgens[m].chunkIndex, content |-> acc])
     /\ messages' = [messages EXCEPT ![m].content = acc]
  /\ UNCHANGED convs
  /\ ResponseFrame

\* case "finish": completeStream
ResponseFinish(m, finishReason, tokens) ==
  /\ Responding(m)
  /\ mgens' = [mgens EXCEPT ![m].parts =
                              Append(@, FinishPart(finishReason, tokens))]
  /\ messages' = [messages EXCEPT
                    ![m].content = mgens[m].accumulatedContent,
                    ![m].isComplete = TRUE,
                    ![m].metadata = Some(Metadata(Some(ModelId),
                                                  Some(finishReason), tokens))]
  /\ convs' = setCompleted(convs, mgens[m].conversationId)
  /\ UNCHANGED streamChunks
  /\ ResponseFrame

\* case "error"
ResponseError(m) ==
  /\ Responding(m)
  /\ mgens' = [mgens EXCEPT ![m].parts = Append(@, ErrorPart)]
  /\ convs' = setError(convs, mgens[m].conversationId)
  /\ UNCHANGED <<messages, streamChunks>>
  /\ ResponseFrame

\* default
ResponseOtherPart(m) ==
  /\ Responding(m)
  /\ mgens' = [mgens EXCEPT ![m].parts = Append(@, StepPart)]
  /\ UNCHANGED <<convs, messages, streamChunks>>
  /\ ResponseFrame

\* the iteration of result.fullStream throws
ResponseThrows(m) ==
  /\ Responding(m)
  /\ mgens' = [mgens EXCEPT ![m].pc = "catch"]
  /\ UNCHANGED <<convs, messages, streamChunks>>
  /\ ResponseFrame

\* the stream closes and the loop ends
ResponseEnds(m) ==
  /\ Responding(m)
  /\ mgens' = [mgens EXCEPT ![m].pc = "done"]
  /\ UNCHANGED <<convs, messages, streamChunks>>
  /\ ResponseFrame

\* catch (error) { ... setError ... }
ResponseCatch(m) ==
  /\ m \in DOMAIN mgens
  /\ mgens[m].pc = "catch"
  /\ convs' = setError(convs, mgens[m].conversationId)
  /\ mgens' = [mgens EXCEPT ![m].pc = "done"]
  /\ UNCHANGED <<messages, streamChunks>>
  /\ ResponseFrame

RECURSIVE PartsOf(_)
PartsOf(G) ==
  IF G = {} THEN 0
  ELSE LET g == CHOOSE x \in G : TRUE
       IN Len(gens[g].parts) + PartsOf(G \ {g})

\* stream parts consumed so far
PartsConsumed == PartsOf(DOMAIN gens)

\* calls of the block functions that pass their checks
UserSteps ==
  \/ \E u \in Users, b \in BlockIds : MayWrite(u, b) /\ deleteBlock(u, b)
  \/ \E u \in Users, b \in BlockIds, x \in BOOLEAN :
        MayWrite(u, b) /\ UserTogglesExclusion(u, b, x)

\* content edits, for the specifications that interleave them
EditSteps ==
  \E u \in Users, b \in BlockIds, d \in UserDocs :
     MayWrite(u, b) /\ UserUpdatesBlock(u, b, d)

PartSteps ==
  \/ \E g \in BlockIds, d \in Deltas : OnTextDelta(g, d)
  \/ \E g \in BlockIds, r \in FinishReasons, t \in Usages, ok \in BOOLEAN :
        OnFinish(g, r, t, ok)
  \/ \E g \in BlockIds : OnError(g)
  \/ \E g \in BlockIds : OnOtherPart(g)

ControlSteps ==
  \/ \E g \in BlockIds : StartStream(g)
  \/ \E g \in BlockIds : StreamThrows(g)
  \/ \E g \in BlockIds : StreamEnds(g)
  \/ \E g \in BlockIds : CatchHandler(g)

\* where Spec creates blocks: anywhere in c1, at the end of c2
Places == {<<"c1", a>> : a \in AfterOrders} \cup {<<"c2", None>>}

\* The block store under every caller.  The generations generateBlocks
\* schedules are run by SpecStream, not here.
Next ==
  \/ /\ nextBlockId <= MaxBlocks
     /\ \E p \in Places : UserCreatesBlock(OwnerOf[p[1]], p[1], None, p[2])
  \/ /\ nextBlockId <= MaxBlocks
     /\ \E p \in Places : generateBlocks(OwnerOf[p[1]], p[1], p[2])
  \/ UserSteps

Spec == Init /\ [][Next]_vars

\* One conversation, blocks appended at the end, and the generations run.
NextStream ==
  \/ /\ nextBlockId <= StreamBlocks
     /\ UserCreatesBlock("u1", "c1", None, None)
  \/ /\ nextBlockId <= StreamBlocks
     /\ generateBlocks("u1", "c1", None)
  \/ UserSteps
  \/ PartsConsumed < StreamParts /\ PartSteps
  \/ ControlSteps

SpecStream == Init /\ [][NextStream]_vars

\* One conversation whose owner writes, edits, excludes and deletes blocks
\* anywhere and asks for generations; the generations are left scheduled.
OptDocs == {None} \cup {Some(d) : d \in UserDocs}

NextContext ==
  \/ /\ nextBlockId <= ContextBlocks
     /\ \E d \in OptDocs, a \in {None, Some(0)} :
           UserCreatesBlock("u1", "c1", d, a)
  \/ /\ nextBlockId <= ContextBlocks
     /\ generateBlocks("u1", "c1", None)
  \/ UserSteps
  \/ EditSteps

SpecContext == Init /\ [][NextContext]_vars

\* Every caller calls every block function on every id, existing or not,
\* owned or not.
NextAuth ==
  \/ /\ nextBlockId <= AuthBlocks
     /\ \E u \in Users, c \in AllConvIds, d \in OptDocs :
           UserCreatesBlock(u, c, d, None)
  \/ \E u \in Users, b \in BlockIds : deleteBlock(u, b)
  \/ \E u \in Users, b \in BlockIds, d \in UserDocs : UserUpdatesBlock(u, b, d)
  \/ \E u \in Users, b \in BlockIds, x \in BOOLEAN :
        UserTogglesExclusion(u, b, x)

SpecAuth == Init /\ [][NextAuth]_vars

\* Every caller calls the two generation entry points on every conversation
\* id, and without one; no generation runs.
OptConvIds == {None} \cup {Some(c) : c \in AllConvIds}

NextEntry ==
  \/ /\ nextBlockId <= AuthBlocks
     /\ \E u \in Users, c \in AllConvIds : generateBlocks(u, c, None)
  \/ /\ nextMessageId + 1 <= AuthMessages
     /\ \E u \in Users, c \in OptConvIds, t \in UserTexts : sendMessage(u, c, t)

SpecEntry == Init /\ [][NextEntry]_vars

\* One conversation whose owner edits the content of blocks while their
\* generations run.
NextEdit ==
  \/ /\ nextBlockId <= StreamBlocks
     /\ generateBlocks("u1", "c1", None)
  \/ EditSteps
  \/ PartsConsumed < StreamParts /\ PartSteps
  \/ ControlSteps

SpecEdit == Init /\ [][NextEdit]_vars

RECURSIVE ResponsePartsOf(_)
ResponsePartsOf(M) ==
  IF M = {} THEN 0
  ELSE LET m == CHOOSE x \in M : TRUE
       IN Len(mgens[m].parts) + ResponsePartsOf(M \ {m})

\* stream parts consumed so far by the streamResponse runs
ResponsePartsConsumed == ResponsePartsOf(DOMAIN mgens)

MessageIds == 1..AuthMessages

ResponsePartSteps ==
  \/ \E m \in MessageIds, d \in Deltas : ResponseTextDelta(m, d)
  \/ \E m \in MessageIds, r \in FinishReasons, t \in Usages :
        ResponseFinish(m, r, t)
  \/ \E m \in MessageIds : ResponseError(m)
  \/ \E m \in MessageIds : ResponseOtherPart(m)

ResponseControlSteps ==
  \/ \E m \in MessageIds : StartResponse(m)
  \/ \E m \in MessageIds : ResponseThrows(m)
  \/ \E m \in MessageIds : ResponseEnds(m)
  \/ \E m \in MessageIds : ResponseCatch(m)

\* The owner sends messages (to the conversation, or without one) and asks
\* for block generations, and every scheduled generation runs.
NextStatus ==
  \/ /\ nextBlockId <= StreamBlocks
     /\ generateBlocks("u1", "c1", None)
  \/ /\ nextMessageId + 1 <= AuthMessages
     /\ \E c \in {None, Some("c1")}, t \in UserTexts : sendMessage("u1", c, t)
  \/ /\ PartsConsumed + ResponsePartsConsumed < StreamParts
     /\ (PartSteps \/ ResponsePartSteps)
  \/ ControlSteps
  \/ ResponseControlSteps

SpecStatus == Init /\ [][NextStatus]_vars

\* Several generations requested on one conversation, at the end or at the
\* front, and run concurrently; the provider emits text and finish.
NextPair ==
  \/ /\ nextBlockId <= PairBlocks
     /\ \E a \in {None, Some(0)} : generateBlocks("u1", "c1", a)
  \/ /\ PartsConsumed < PairParts
     /\ \/ \E g \in BlockIds, d \in Deltas : OnTextDelta(g, d)
        \/ \E g \in BlockIds, r \in FinishReasons, t \in Usages :
              OnFinish(g, r, t, TRUE)
  \/ \E g \in BlockIds : StartStream(g)
  \/ \E g \in BlockIds : StreamEnds(g)

SpecPair == Init /\ [][NextPair]_vars

\* SpecStream with the text-delta case in its two steps.
NextAwait ==
  \/ /\ nextBlockId <= StreamBlocks
     /\ generateBlocks("u1", "c1", None)
  \/ UserSteps
  \/ /\ PartsConsumed < StreamParts
     /\ \E g \in BlockIds, d \in Deltas : TakeTextDelta(g, d)
  \/ \E g \in BlockIds : AwaitedWrite(g)
  \/ /\ PartsConsumed < StreamParts
     /\ \/ \E g \in BlockIds, r \in FinishReasons, t \in Usages,
              ok \in BOOLEAN : OnFinish(g, r, t, ok)
        \/ \E g \in BlockIds : OnError(g)
        \/ \E g \in BlockIds : OnOtherPart(g)
  \/ ControlSteps

SpecAwait == Init /\ [][NextAwait]_vars

\* One conversation whose owner stores documents of every kind: without
\* nodes, with text, and with a node the schema does not know.
ConvertDocs ==
  {Doc(<<>>), Doc(<<Paragraph(<<"a">>)>>), Doc(<<UnknownNode>>),
   Doc(<<Paragraph(<<"a">>), UnknownNode>>)}

NextConvert ==
  \/ /\ nextBlockId <= ConvertBlocks
     /\ \E d \in {None} \cup {Some(x) : x \in ConvertDocs} :
           UserCreatesBlock("u1", "c1", d, None)
  \/ /\ nextBlockId <= ConvertBlocks
     /\ generateBlocks("u1", "c1", None)
  \/ \E b \in BlockIds, d \in ConvertDocs :
        MayWrite("u1", b) /\ UserUpdatesBlock("u1", b, d)
  \/ UserSteps

SpecConvert == Init /\ [][NextConvert]_vars

\* ------------------------------------------------- the allocator on its own
InitAlloc ==
  /\ convs = [c \in ConvIds |-> create(OwnerOf[c])]
  /\ blocks = [i \in {} |-> 0]
  /\ nextBlockId = 1
  /\ gens = [i \in {} |-> 0]
  /\ lastCreate = NoCreate
  /\ allocArgs \in OptNums \X OptNums
  /\ allocResult = None
  /\ thrown = None
  /\ messages = [i \in {} |-> 0]
  /\ streamChunks = <<>>
  /\ nextMessageId = 1
  /\ mgens = [i \in {} |-> 0]

Allocate ==
  /\ allocResult = None
  /\ Representable(allocArgs[1], allocArgs[2])
  /\ allocResult' = Some(calculateOrder(allocArgs[1], allocArgs[2]))
  /\ UNCHANGED <<convs, blocks, nextBlockId, gens, lastCreate, allocArgs,
               thrown, chatVars>>

NextAlloc == Allocate

SpecAlloc == InitAlloc /\ [][NextAlloc]_vars

\* The allocator of the specification, section 4.1: an argument is present
\* when it is given, whatever its value.
allocateOrder(prev, next) ==
  IF IsSome(prev) /\ IsSome(next) THEN Mean(Get(prev), Get(next))
  ELSE IF IsSome(prev) THEN Get(prev) + One
  ELSE IF IsSome(next) THEN Get(next) - One
  ELSE One

\* ------------------------------------------------------------- properties
NonDecreasing(result) ==
  \A m, n \in 1..Len(result) : m < n => result[m].order <= result[n].order

Ids(result) == {result[n]._id : n \in 1..Len(result)}

Included(bs, conversationId) ==
  {i \in InConversation(bs, conversationId) : ~bs[i].isExcluded}

\* C1: getBlocksAssistant returns the non-excluded blocks of the conversation
\* sorted by order ascending, in every reachable state of the block store.
C1_IncludedSortedByOrder ==
  \A c \in ConvIds :
    LET result == getBlocksAssistant(blocks, c) IN
    /\ Ids(result) = Included(blocks, c)
    /\ Len(result) = Cardinality(Included(blocks, c))
    /\ NonDecreasing(result)

\* C2: the result of getBlocksAssistant never contains a block whose
\* isExcluded is true, after any creations, toggles, deletions and streaming
\* writes.
C2_ExclusionFilter ==
  \A c \in ConvIds :
    LET result == getBlocksAssistant(blocks, c) IN
    \A n \in 1..Len(result) :
      /\ ~result[n].isExcluded
      /\ ~blocks[result[n]._id].isExcluded

\* a block excluded by toggleExclusion that has since received a streaming
\* write and is left out of the result
C2_Witness ==
  \E i \in DOMAIN blocks :
    /\ blocks[i].isExcluded
    /\ blocks[i].isStreaming
    /\ blocks[i].streamingContent = Some(<<"a">>)
    /\ i \notin Ids(getBlocksAssistant(blocks, blocks[i].conversationId))

\* C3: for every pair prev < next (any sign, zero included) the result r of
\* calculateOrder(prev, next) satisfies prev < r < next.
C3_AllocatorOrdering ==
  (/\ IsSome(allocResult)
   /\ IsSome(allocArgs[1]) /\ IsSome(allocArgs[2])
   /\ Get(allocArgs[1]) < Get(allocArgs[2]))
  => (/\ Get(allocArgs[1]) < Get(allocResult)
      /\ Get(allocResult) < Get(allocArgs[2]))

\* C4: calculateOrder equals the reference allocator on every input: the
\* mean when both arguments are given, prev + 1 or next - 1 when one is
\* given, 1 when none is, whatever the value of the given arguments.
C4_AllocatorReference ==
  IsSome(allocResult) =>
    allocResult = Some(allocateOrder(allocArgs[1], allocArgs[2]))

\* C5: no two blocks of the same conversation have the same order, after any
\* sequence of createUserBlock, createAssistantBlock and deleteBlock.
C5_UniqueOrder ==
  \A i, j \in DOMAIN blocks :
    (i # j /\ blocks[i].conversationId = blocks[j].conversationId)
    => blocks[i].order # blocks[j].order

\* C6: a created block is placed at (largest order + 1), or 1 in an empty
\* conversation, when afterOrder is omitted; with afterOrder = a its order o
\* has a < o, and o < n for the smallest existing order n above a, or
\* o = a + 1 when there is none.
C6_Placement ==
  [][nextBlockId' # nextBlockId =>
       LET a == lastCreate'.afterOrder
           c == lastCreate'.conversationId
           o == blocks'[lastCreate'.id].order
       IN IF ~IsSome(a)
            THEN o = (IF Orders(blocks, c) = {} THEN One
                      ELSE Max(Orders(blocks, c)) + One)
            ELSE /\ Get(a) < o
                 /\ IF OrdersAfter(blocks, c, a) # {}
                      THEN o < Min(OrdersAfter(blocks, c, a))
                      ELSE o = Get(a) + One]_vars

\* C7: getBlocksUser, called by the owner, returns exactly the blocks of that
\* conversation, excluded ones included and none of another conversation,
\* sorted by order ascending.
C7_OwnerListing ==
  \A c \in ConvIds :
    LET r == getBlocksUser(blocks, convs, convs[c].userId, c) IN
    /\ r.error = None
    /\ Ids(r.blocks) = InConversation(blocks, c)
    /\ Len(r.blocks) = Cardinality(InConversation(blocks, c))
    /\ \A n \in 1..Len(r.blocks) :
         r.blocks[n] = Returned(blocks, r.blocks[n]._id)
    /\ NonDecreasing(r.blocks)

\* a conversation whose later block sorts before an earlier, excluded one,
\* while the other conversation has a block too
C7_Witness ==
  \E i, j, k \in DOMAIN blocks :
    /\ blocks[i].conversationId = blocks[j].conversationId
    /\ blocks[k].conversationId # blocks[i].conversationId
    /\ i < j /\ blocks[j].order < blocks[i].order
    /\ blocks[i].isExcluded
    /\ getBlocksUser(blocks, convs, convs[blocks[i].conversationId].userId,
                     blocks[i].conversationId).blocks[1]._id = j

\* the text deltas among the parts, in emission order
RECURSIVE DeltasOf(_)
DeltasOf(parts) ==
  IF parts = <<>> THEN <<>>
  ELSE (IF Head(parts).type = "text-delta" THEN <<Head(parts).textDelta>>
        ELSE <<>>) \o DeltasOf(Tail(parts))

HasPart(parts, type) == \E n \in 1..Len(parts) : parts[n].type = type

\* generation g consumes one more part in this step
Consumes(g) ==
  /\ g \in DOMAIN gens
  /\ Len(gens'[g].parts) = Len(gens[g].parts) + 1

LastPart(g) == gens'[g].parts[Len(gens'[g].parts)]

\* C8: when the stream emits text deltas d1..dn and then finish, the
\* finalizing write leaves the placeholder with isStreaming = false, no
\* streamingContent, no streamId, content = the document converted from
\* d1..dn concatenated and metadata = model id, finish reason and token
\* usage; the end of the stream writes nothing more.  (The write is made
\* when the conversion returns and the block still exists.)
C8_Finalization ==
  [][\A g \in DOMAIN gens :
       /\ (/\ Consumes(g)
           /\ LastPart(g).type = "finish"
           /\ gens'[g].pc = "loop")
          => /\ g \in DOMAIN blocks'
             /\ blocks'[g].isStreaming = FALSE
             /\ blocks'[g].streamingContent = None
             /\ blocks'[g].streamId = None
             /\ blocks'[g].content =
                  Some(JSONstringify(markdownToTiptapJson(
                         Flatten(DeltasOf(gens'[g].parts)))))
             /\ blocks'[g].metadata =
                  Some(Metadata(Some(ModelId), LastPart(g).finishReason,
                                LastPart(g).tokens))
       /\ (gens[g].pc = "loop" /\ gens'[g].pc = "done") => blocks' = blocks
    ]_vars

\* a generation that consumed two deltas and finish and ended, its block
\* holding the two paragraphs converted from "a\n\nb"
C8_Witness ==
  \E g \in DOMAIN gens \cap DOMAIN blocks :
    /\ gens[g].pc = "done"
    /\ gens[g].parts = <<TextDelta(<<"a">>), TextDelta(<<NL, NL, "b">>),
                         FinishPart("stop", Some(7))>>
    /\ ~blocks[g].isStreaming
    /\ blocks[g].streamingContent = None
    /\ blocks[g].content =
         Some(JSONstringify(Doc(<<Paragraph(<<"a">>), Paragraph(<<"b">>)>>)))

\* C9: every value written to streamingContent is the concatenation, in
\* emission order, of the deltas emitted so far; each write extends the
\* value written before it by the new delta; and at finalization the block
\* carries the concatenation of all deltas.
C9_StreamingWrites ==
  [][\A g \in DOMAIN gens :
       /\ (/\ g \in DOMAIN blocks /\ g \in DOMAIN blocks'
           /\ blocks'[g].streamingContent # blocks[g].streamingContent
           /\ IsSome(blocks'[g].streamingContent))
          => /\ Consumes(g)
             /\ LastPart(g).type = "text-delta"
             /\ Get(blocks'[g].streamingContent) =
                  Flatten(DeltasOf(gens'[g].parts))
             /\ IsSome(blocks[g].streamingContent) =>
                  Get(blocks'[g].streamingContent) =
                    Get(blocks[g].streamingContent) \o LastPart(g).textDelta
       /\ (/\ Consumes(g)
           /\ LastPart(g).type = "text-delta"
           /\ g \in DOMAIN blocks)
          => /\ g \in DOMAIN blocks'
             /\ blocks'[g].streamingContent =
                  Some(Flatten(DeltasOf(gens'[g].parts)))
       /\ (/\ Consumes(g)
           /\ LastPart(g).type = "finish"
           /\ ~HasPart(gens[g].parts, "finish")
           /\ HasPart(gens[g].parts, "text-delta")
           /\ g \in DOMAIN blocks)
          => blocks[g].streamingContent =
               Some(Flatten(DeltasOf(gens[g].parts)))
    ]_vars

\* a placeholder that has received the second of two different deltas
C9_Witness ==
  \E g \in DOMAIN gens \cap DOMAIN blocks :
    /\ gens[g].parts = <<TextDelta(<<NL, NL, "b">>), TextDelta(<<"a">>)>>
    /\ blocks[g].streamingContent = Some(<<NL, NL, "b", "a">>)
    /\ blocks[g].isStreaming

\* C10: on an error part, and on any exception raised while the stream is
\* consumed (a failing block write, a failing conversion, a throwing
\* stream), the conversation's status becomes error and the placeholder
\* keeps the fields of its last successful write.
C10_Erroring ==
  [][\A g \in DOMAIN gens :
       /\ (Consumes(g) /\ LastPart(g).type = "error")
          => /\ convs'[gens[g].conversationId].status = "error"
             /\ blocks' = blocks
       /\ (gens[g].pc = "loop" /\ gens'[g].pc = "catch") => blocks' = blocks
       /\ (gens[g].pc = "catch" /\ gens'[g].pc # "catch")
          => /\ gens'[g].pc = "done"
             /\ convs'[gens[g].conversationId].status = "error"
             /\ blocks' = blocks
    ]_vars

\* a generation ended by its catch handler: the conversation is in error and
\* the placeholder still shows the partial text with isStreaming = true
C10_Witness ==
  \E g \in DOMAIN gens \cap DOMAIN blocks :
    /\ gens[g].pc = "done"
    /\ ~HasPart(gens[g].parts, "error")
    /\ ~HasPart(gens[g].parts, "finish")
    /\ convs[gens[g].conversationId].status = "error"
    /\ blocks[g].isStreaming
    /\ blocks[g].streamingContent = Some(<<"a">>)

\* a public call created a generation in this step
Generates == nextBlockId' # nextBlockId /\ lastCreate'.id \in DOMAIN gens'

\* the Markdown of a returned block
MarkdownOf(block) == convertTiptapJsonToMarkdown(block.content)

\* C11: in every conversation state (any mix of user and assistant, excluded,
\* empty and in-flight blocks, none at all included) the message list that
\* generateBlocks hands to the model ends with a user-role entry.
C11_EndsWithUser ==
  \A g \in DOMAIN gens :
    gens[g].messages[Len(gens[g].messages)].role = "user"

\* included blocks of a conversation whose Markdown is not empty
NonEmptyIncluded(bs, conversationId) ==
  {i \in Included(bs, conversationId) : MarkdownOf(Returned(bs, i)) # <<>>}

\* those of them that come last in the document, by order
LastNonEmpty(bs, conversationId) ==
  {i \in NonEmptyIncluded(bs, conversationId) :
     \A j \in NonEmptyIncluded(bs, conversationId) : bs[j].order <= bs[i].order}

\* C12: when the last included block with non-empty Markdown has author
\* assistant, the list assembled by generateBlocks ends with the user message
\* "Continue"; when it has author user, no "Continue" entry is appended.
C12_ContinueInjection ==
  [][Generates =>
       LET c == lastCreate'.conversationId
           msgs == gens'[lastCreate'.id].messages
           last == LastNonEmpty(blocks, c)
           n == Cardinality(NonEmptyIncluded(blocks, c))
       IN /\ (last # {} /\ \A i \in last : blocks[i].author = "assistant")
             => (msgs[Len(msgs)] = ContinueMessage /\ Len(msgs) = n + 2)
          /\ (last # {} /\ \A i \in last : blocks[i].author = "user")
             => Len(msgs) = n + 1
    ]_vars

\* C13: the list assembled by generateBlocks is the system preamble followed
\* by one (author, Markdown) entry for each block the included-blocks query
\* returns, in that order, leaving out exactly the blocks whose Markdown is
\* empty (the "Continue" entry of C12 may follow); a block without content,
\* the placeholder of this call included, contributes no entry.
C13_MessageList ==
  [][Generates =>
       LET c == lastCreate'.conversationId
           msgs == gens'[lastCreate'.id].messages
           q == getBlocksAssistant(blocks, c)
           kept == {n \in 1..Len(q) : MarkdownOf(q[n]) # <<>>}
           rank(n) == Cardinality({m \in kept : m <= n})
       IN /\ msgs[1] = SystemMessage
          /\ \A n \in kept :
               msgs[1 + rank(n)] =
                 [role |-> q[n].author, content |-> MarkdownOf(q[n])]
          /\ \/ Len(msgs) = 1 + Cardinality(kept)
             \/ /\ Len(msgs) = 2 + Cardinality(kept)
                /\ msgs[Len(msgs)] = ContinueMessage
          /\ \A n \in 1..Len(q) : q[n].content = None => n \notin kept
          /\ lastCreate'.id \notin Ids(q)
    ]_vars

\* a generation whose list holds the one written user block, assembled while
\* an earlier placeholder without content was included in the conversation
C13_Witness ==
  \E g \in DOMAIN gens, p \in DOMAIN gens \cap DOMAIN blocks,
     u \in DOMAIN blocks :
    /\ p < g /\ u < g
    /\ blocks[p].content = None /\ ~blocks[p].isExcluded
    /\ blocks[u].author = "user"
    /\ gens[g].messages =
         <<SystemMessage, [role |-> "user", content |-> <<"a">>]>>

\* the call of this step threw this error and wrote nothing
RejectedWith(errors) ==
  /\ thrown' \in {Some(e) : e \in errors}
  /\ blocks' = blocks /\ convs' = convs /\ messages' = messages
  /\ gens' = gens /\ mgens' = mgens /\ streamChunks' = streamChunks

\* callers who do not own an existing conversation, or the conversation of
\* an existing block
NotOwner(u, c) == c \in DOMAIN convs /\ convs[c].userId # u
NotBlockOwner(u, b) ==
  b \in DOMAIN blocks /\ NotOwner(u, blocks[b].conversationId)

\* this step is a call of one of the three block writes by u on b
WritesBlock(u, b) ==
  \/ deleteBlock(u, b)
  \/ \E d \in UserDocs : UserUpdatesBlock(u, b, d)
  \/ \E x \in BOOLEAN : UserTogglesExclusion(u, b, x)

\* C14: getBlocksUser, createUserBlock, updateBlockUser, toggleExclusion and
\* deleteBlock, called by a user who does not own the target conversation
\* (or the conversation of the target block), fail with the authorization
\* error and leave every block and conversation unchanged.
C14_Unauthorized ==
  [][/\ \A u \in Users, c \in AllConvIds :
          NotOwner(u, c) =>
            /\ getBlocksUser(blocks, convs, u, c) = Thrown("Unauthorized")
            /\ (\E d \in OptDocs, a \in AfterOrders :
                   UserCreatesBlock(u, c, d, a))
               => RejectedWith({"Unauthorized"})
     /\ \A u \in Users, b \in BlockIds :
          (NotBlockOwner(u, b) /\ WritesBlock(u, b))
          => RejectedWith({"Unauthorized"})
    ]_vars

\* the other user's call was rejected while the owner's written and excluded
\* block is in the table
C14_Witness ==
  /\ thrown = Some("Unauthorized")
  /\ \E b \in DOMAIN blocks :
       /\ blocks[b].isExcluded
       /\ blocks[b].content = Some(JSONstringify(Doc(<<Paragraph(<<"a">>)>>)))

NotFoundErrors == {"Block not found", "Conversation not found"}

\* C15: every block function given an id that does not exist (a block id for
\* updateBlockUser, toggleExclusion, deleteBlock; a conversation id for
\* getBlocksUser and createUserBlock) fails with a NotFound error, which is
\* not the authorization error, and changes no state.
C15_NotFound ==
  [][/\ \A u \in Users, c \in AllConvIds \ DOMAIN convs :
          /\ getBlocksUser(blocks, convs, u, c).error
               \in {Some(e) : e \in NotFoundErrors}
          /\ (\E d \in OptDocs, a \in AfterOrders :
                 UserCreatesBlock(u, c, d, a))
             => RejectedWith(NotFoundErrors)
     /\ \A u \in Users, b \in BlockIds \ DOMAIN blocks :
          WritesBlock(u, b) => RejectedWith(NotFoundErrors)
    ]_vars

\* C16: sendMessage and generateBlocks, called with the id of an existing
\* conversation of another user, are rejected: no message or block is
\* inserted, the status is unchanged and no generation is scheduled.
C16_GenerationRejected ==
  [][\A u \in Users, c \in AllConvIds :
       (/\ NotOwner(u, c)
        /\ \/ \E a \in AfterOrders : generateBlocks(u, c, a)
           \/ \E t \in UserTexts : sendMessage(u, Some(c), t))
       => /\ IsSome(thrown')
          /\ blocks' = blocks /\ messages' = messages /\ convs' = convs
          /\ gens' = gens /\ mgens' = mgens
    ]_vars

\* C17 as stated: in every reachable state a block's isStreaming is true
\* exactly when a generation is in flight for the block, from the moment
\* generateBlocks has scheduled it until it has finished or failed.
C17_StreamingWhileInFlight ==
  \A i \in DOMAIN blocks :
    blocks[i].isStreaming <=> (i \in DOMAIN gens /\ gens[i].pc # "done")

\* C17 as amended: isStreaming is false when a block is created (the
\* placeholder of a scheduled generation included), becomes true at the write
\* of a text delta by the block's generation, becomes false at that
\* generation's finalizing write, and changes at no other step: not when the
\* generation is scheduled or starts, and not when it fails or ends.
C17_StreamingFlag ==
  [][\A i \in DOMAIN blocks' :
       IF i \notin DOMAIN blocks THEN ~blocks'[i].isStreaming
       ELSE /\ (~blocks[i].isStreaming /\ blocks'[i].isStreaming)
               => (Consumes(i) /\ LastPart(i).type = "text-delta")
            /\ (blocks[i].isStreaming /\ ~blocks'[i].isStreaming)
               => (Consumes(i) /\ LastPart(i).type = "finish")
            /\ (Consumes(i) /\ LastPart(i).type = "text-delta")
               => blocks'[i].isStreaming
            /\ (Consumes(i) /\ LastPart(i).type = "finish"
                            /\ gens'[i].pc = "loop")
               => ~blocks'[i].isStreaming
    ]_vars

\* a generation that wrote one delta, met an error part and ended: its block
\* still has isStreaming = true
C17_Witness ==
  \E g \in DOMAIN gens \cap DOMAIN blocks :
    /\ gens[g].pc = "done"
    /\ gens[g].parts = <<TextDelta(<<"a">>), ErrorPart>>
    /\ blocks[g].isStreaming

\* C18: in every reachable state a block with isStreaming = true has no
\* content, under every interleaving of the streaming writes with the
\* owner's updateBlockUser calls on the same block.
C18_NoContentWhileStreaming ==
  \A i \in DOMAIN blocks : blocks[i].isStreaming => blocks[i].content = None

StatusTransitions ==
  {<<"idle", "streaming">>, <<"streaming", "completed">>,
   <<"streaming", "error">>}

\* C19: a conversation's status changes only along idle -> streaming,
\* streaming -> completed and streaming -> error, over every sequence of
\* sendMessage and generateBlocks requests and their background generations;
\* a conversation is created idle (and set streaming by the sendMessage that
\* creates it).
C19_StatusTransitions ==
  [][\A c \in DOMAIN convs' :
       IF c \in DOMAIN convs
         THEN convs'[c].status # convs[c].status
              => <<convs[c].status, convs'[c].status>> \in StatusTransitions
         ELSE convs'[c].status \in {"idle", "streaming"}
    ]_vars

\* C20: while a generation started by generateBlocks is in flight and the
\* provider has neither finished nor failed (a stream that makes no progress
\* included), the owning conversation's status is streaming.
C20_StreamingWhileGenerating ==
  \A g \in DOMAIN gens :
    (/\ gens[g].pc \in {"scheduled", "loop"}
     /\ ~HasPart(gens[g].parts, "finish")
     /\ ~HasPart(gens[g].parts, "error"))
    => convs[gens[g].conversationId].status = "streaming"

\* building or serializing this document fails
FailsToConvert(doc) ==
  \E n \in 1..Len(doc.content) : doc.content[n].type \notin SchemaNodes

\* C21: convertTiptapJsonToMarkdown never raises: for a missing document or a
\* document without content it returns the empty string, and when building
\* or serializing the document fails it returns "Error during conversion."
\* instead of propagating the failure.
C21_ConverterNeverRaises ==
  \A i \in DOMAIN blocks :
    LET json == Returned(blocks, i).content
        o == convertOutcome(json)
    IN /\ ~o.raised
       /\ (~IsSome(json) \/ Get(json).content = <<>>) => o.value = <<>>
       /\ (IsSome(json) /\ FailsToConvert(Get(json)))
          => o.value = ConversionError
       /\ (IsSome(json) /\ ~FailsToConvert(Get(json)))
          => o.value = SerializeNodes(Get(json).content, <<>>)

\* a placeholder without content beside a block whose document has a text
\* paragraph and an unknown node
C21_Witness ==
  \E i, j \in DOMAIN blocks :
    /\ blocks[i].content = None
    /\ blocks[j].content =
         Some(JSONstringify(Doc(<<Paragraph(<<"a">>), UnknownNode>>)))
    /\ convertOutcome(Returned(blocks, j).content) = Returns(ConversionError)

\* C22: in the token estimate over the non-excluded blocks, a block whose
\* Markdown conversion fails contributes the estimate of its serialized raw
\* document (its JSON text), every other block with content contributes the
\* estimate of its Markdown, and no block is left out.
C22_TokenFallback ==
  \A c \in ConvIds :
    LET r == getBlocksUser(blocks, convs, convs[c].userId, c).blocks
        info == tokenInfo(r)
    IN /\ {info[n]._id : n \in 1..Len(info)} =
            {i \in Included(blocks, c) : IsSome(blocks[i].content)}
       /\ \A n \in 1..Len(info) :
            LET doc == JSONparse(Get(blocks[info[n]._id].content)) IN
            IF doc.content # <<>> /\ FailsToConvert(doc)
              THEN /\ info[n].text.from = "JSON.stringify"
                   /\ info[n].text.json = blocks[info[n]._id].content
              ELSE /\ info[n].text.from = "markdown"
                   /\ info[n].text.markdown =
                        SerializeNodes(doc.content, <<>>)

\* C23: each fragment write is fire-and-forget: while the write of a
\* fragment has not completed, the coordinator can already take the next
\* fragment from the provider stream.
C23_FireAndForget ==
  \A g \in DOMAIN gens :
    gens[g].pc = "await" => ENABLED (\E d \in Deltas : TakeTextDelta(g, d))

Settled(g) ==
  \E n \in 1..Len(gens[g].parts) :
    \/ gens[g].parts[n].type = "error"
    \/ /\ gens[g].parts[n].type = "finish"
       /\ (n < Len(gens[g].parts) \/ gens[g].pc = "loop")

\* C26: every generation goes through exactly one of Finalizing and
\* Erroring: once it has finalized or errored it handles no further
\* text-delta, finish or error part and does not run its catch handler, and
\* its loop does not end before it has done one of the two.
C26_ExactlyOneTerminal ==
  [][\A g \in DOMAIN gens :
       /\ Settled(g)
          => /\ ~(/\ Consumes(g)
                  /\ LastPart(g).type \in {"text-delta", "finish", "error"})
             /\ ~(gens[g].pc = "catch" /\ gens'[g].pc = "done")
       /\ (gens[g].pc = "loop" /\ gens'[g].pc = "done") => Settled(g)
    ]_vars

\* C27: with several generations on one conversation, a generation's write
\* changes only the placeholder created for it, its finalizing write stores
\* the conversion of exactly the deltas of its own stream, and each request
\* creates a placeholder and a stream id no other generation has.
C27_OwnPlaceholder ==
  [][\A g \in BlockIds :
       /\ (g \in DOMAIN gens /\ Consumes(g))
          => /\ \A h \in DOMAIN blocks \ {g} :
                  h \in DOMAIN blocks' /\ blocks'[h] = blocks[h]
             /\ DOMAIN blocks' = DOMAIN blocks
       /\ (/\ g \in DOMAIN gens /\ Consumes(g)
           /\ LastPart(g).type = "finish"
           /\ g \in DOMAIN blocks')
          => blocks'[g].content =
               Some(JSONstringify(markdownToTiptapJson(
                      Flatten(DeltasOf(gens'[g].parts)))))
       /\ (g \in DOMAIN gens' /\ g \notin DOMAIN gens)
          => /\ g \notin DOMAIN blocks
             /\ blocks'[g].streamId = Some(gens'[g].streamId)
             /\ \A h \in DOMAIN gens : gens[h].streamId # gens'[g].streamId
             /\ \A h \in DOMAIN blocks :
                  blocks[h].streamId # Some(gens'[g].streamId)
    ]_vars

\* two generations of one conversation whose streams interleaved, each
\* placeholder finalized with the text of its own stream
C27_Witness ==
  /\ {1, 2} \subseteq DOMAIN gens \cap DOMAIN blocks
  /\ blocks[1].conversationId = blocks[2].conversationId
  /\ gens[1].parts = <<TextDelta(<<"a">>), FinishPart("stop", Some(7))>>
  /\ gens[2].parts = <<TextDelta(<<NL, NL, "b">>), FinishPart("stop", Some(7))>>
  /\ blocks[1].content = Some(JSONstringify(Doc(<<Paragraph(<<"a">>)>>)))
  /\ blocks[2].content = Some(JSONstringify(Doc(<<Paragraph(<<"b">>)>>)))
  /\ blocks[2].order < blocks[1].order

\* C28: once the placeholder of a generation has been deleted, no step
\* brings a block with that id back; the generation's next streaming or
\* finalizing write fails and changes no block, after the failure it takes
\* no further part, and its handler sets the conversation's status to
\* error and ends it.
C28_DeletedPlaceholder ==
  [][\A g \in DOMAIN gens \ DOMAIN blocks :
       /\ g \notin DOMAIN blocks'
       /\ (Consumes(g) /\ LastPart(g).type \in {"text-delta", "finish"})
          => /\ gens'[g].pc = "catch"
             /\ blocks' = blocks
       /\ gens[g].pc = "catch"
          => /\ ~Consumes(g)
             /\ gens'[g] # gens[g]
                => /\ gens'[g].pc = "done"
                   /\ convs'[gens[g].conversationId].status = "error"
       /\ gens[g].pc = "done" => gens'[g] = gens[g]
    ]_vars

\* a generation whose placeholder was deleted after its first write: the
\* second write failed, the generation ended and the conversation is in error
C28_Witness ==
  \E g \in DOMAIN gens \ DOMAIN blocks :
    /\ gens[g].pc = "done"
    /\ gens[g].parts = <<TextDelta(<<"a">>), TextDelta(<<NL, NL, "b">>)>>
    /\ convs[gens[g].conversationId].status = "error"

\* C29: a generation that has terminated has left its placeholder
\* finalized (isStreaming = false with content set) or its conversation in
\* status error.
C29_EndsFinalizedOrError ==
  \A g \in DOMAIN gens :
    gens[g].pc = "done"
      => \/ /\ g \in DOMAIN blocks
            /\ ~blocks[g].isStreaming
            /\ IsSome(blocks[g].content)
         \/ convs[gens[g].conversationId].status = "error"

\* C30: on the message path a conversation has status completed only in
\* states where none of its messages has isComplete = false.
C30_CompletedMeansAllComplete ==
  \A c \in DOMAIN convs :
    convs[c].status = "completed"
      => \A m \in DOMAIN messages :
           messages[m].conversationId = c => messages[m].isComplete

TypeOK == nextBlockId \in 1..(MaxBlocks + StreamBlocks + 1)

====
